---- MODULE Spec2Model ----
(***************************************************************************)
(* logmentor: the log structuring and chunking engine (src/utils.py) and   *)
(* the Streamlit session that drives it (src/app.py).                      *)
(*                                                                         *)
(* A text is a sequence of lexemes (TLA+ strings).  A lexeme is one of:    *)
(* a timestamp "YYYY-MM-DD HH:MM:SS", a sub-second suffix ",ddd", one      *)
(* white-space character, "[", "]", the line break "\n", a word (a maximal *)
(* run of \w characters) or a complete JSON text.  Splitting, stripping,   *)
(* the header pattern, formatting and joining all work on these sequences. *)
(***************************************************************************)
EXTENDS Integers, Sequences, FiniteSets, TLC

\* ------------------------------------------------------------------ bounds

\* Number of physical lines of an input text given to structure_logs.
MaxLines == 3

\* Largest chunk_size given to chunk_structured_logs (the smallest is -1).
MaxChunkSize == 3

\* ---------------------------------------------------------------- lexemes

NL == "\n"
SP == " "

Timestamps == {"2024-01-01 10:00:00", "2024-01-01 10:00:01"}
SubSeconds == {",123"}
Words == {"INFO", "ERROR", "DEBUG", "WARNING", "UNKNOWN", "started", "failed",
          "at", "line", "ping", "t", "123", "5"}

\* JSON texts of the input catalogue.
JsonRecordText == "{\"timestamp\":\"t\",\"level\":\"DEBUG\",\"message\":\"ping\"}"
JsonEmptyMsgText == "{\"timestamp\":\"t\",\"level\":\"INFO\",\"message\":\"\"}"
JsonIntMsgText == "{\"timestamp\":\"t\",\"level\":\"ERROR\",\"message\":5}"
JsonNoKeysText == "{\"a\":1}"
JsonNumberText == "123"
JsonNumberTexts == {"123", "5"}
JsonStringText == "\"timestamp level message\""

\* ------------------------------------------------------- python values

\* A Python value as far as the code looks at it: its type and its str().
PyStr(s) == [ty |-> "str", s |-> s]
PyInt(w) == [ty |-> "int", s |-> <<w>>]

\* The three keys line 24 asks for.
RequiredKeys == {"timestamp", "level", "message"}

NoFields == [timestamp |-> PyStr(<<>>), level |-> PyStr(<<>>), message |-> PyStr(<<>>)]

\* json.loads on one stripped line: ok = FALSE is json.JSONDecodeError.  A
\* decoded value carries its type, the keys k for which `k in parsed` is
\* true, and for an object the values under the three keys.
json_loads(line) ==
    LET fail == [ok |-> FALSE, ty |-> "none", has |-> {}, fields |-> NoFields]
        obj(ts, lv, msg) == [ok |-> TRUE, ty |-> "dict", has |-> RequiredKeys,
                             fields |-> [timestamp |-> ts, level |-> lv, message |-> msg]]
    IN  IF Len(line) # 1 THEN fail
        ELSE CASE line[1] = JsonRecordText ->
                    obj(PyStr(<<"t">>), PyStr(<<"DEBUG">>), PyStr(<<"ping">>))
               [] line[1] = JsonEmptyMsgText ->
                    obj(PyStr(<<"t">>), PyStr(<<"INFO">>), PyStr(<<>>))
               [] line[1] = JsonIntMsgText ->
                    obj(PyStr(<<"t">>), PyStr(<<"ERROR">>), PyInt("5"))
               [] line[1] = JsonNoKeysText ->
                    [ok |-> TRUE, ty |-> "dict", has |-> {}, fields |-> NoFields]
               [] line[1] \in JsonNumberTexts ->
                    [ok |-> TRUE, ty |-> "int", has |-> {}, fields |-> NoFields]
               [] line[1] = JsonStringText ->
                    [ok |-> TRUE, ty |-> "str", has |-> RequiredKeys, fields |-> NoFields]
               [] OTHER -> fail

\* ------------------------------------------------------- text primitives

RECURSIVE FirstNL(_, _)
\* Index of the first line break of text at or after position i, 0 if none.
FirstNL(text, i) ==
    IF i > Len(text) THEN 0
    ELSE IF text[i] = NL THEN i ELSE FirstNL(text, i + 1)

RECURSIVE splitlines(_)
\* str.splitlines(): no empty last line after a final line break.
splitlines(text) ==
    IF text = <<>> THEN <<>>
    ELSE LET k == FirstNL(text, 1)
         IN  IF k = 0 THEN <<text>>
             ELSE <<SubSeq(text, 1, k - 1)>> \o splitlines(SubSeq(text, k + 1, Len(text)))

RECURSIVE lstrip(_)
lstrip(line) ==
    IF line # <<>> /\ Head(line) = SP THEN lstrip(Tail(line)) ELSE line

RECURSIVE rstrip(_)
rstrip(line) ==
    IF line # <<>> /\ line[Len(line)] = SP
    THEN rstrip(SubSeq(line, 1, Len(line) - 1)) ELSE line

\* str.strip()
strip(line) == rstrip(lstrip(line))

RECURSIVE join(_, _)
\* sep.join(parts)
join(sep, parts) ==
    IF parts = <<>> THEN <<>>
    ELSE IF Len(parts) = 1 THEN parts[1]
    ELSE parts[1] \o sep \o join(sep, Tail(parts))

RECURSIVE SkipSpaces(_, _)
\* \s+ is greedy: the position after the run of white space starting at p.
SkipSpaces(line, p) ==
    IF p <= Len(line) /\ line[p] = SP THEN SkipSpaces(line, p + 1) ELSE p

\* text_log_pattern.match(line):
\*   ^(ts)(?:,\d+)?\s+\[?(\w+)\]?\s+(.*)
text_log_pattern(line) ==
    LET nomatch == [matched |-> FALSE, g1 |-> <<>>, g2 |-> <<>>, g3 |-> <<>>]
        at(p) == IF p <= Len(line) THEN line[p] ELSE ""
        p1 == IF at(2) \in SubSeconds THEN 3 ELSE 2
        p2 == SkipSpaces(line, p1)
        p3 == IF at(p2) = "[" THEN p2 + 1 ELSE p2
        p4 == IF at(p3 + 1) = "]" THEN p3 + 2 ELSE p3 + 1
        p5 == SkipSpaces(line, p4)
    IN  IF /\ at(1) \in Timestamps
           /\ p2 > p1
           /\ at(p3) \in Words
           /\ p5 > p4
        THEN [matched |-> TRUE, g1 |-> <<line[1]>>, g2 |-> <<line[p3]>>,
              g3 |-> SubSeq(line, p5, Len(line))]
        ELSE nomatch

\* ------------------------------------------------------- structure_logs

\* A log record: the three fields of the dict built at lines 27-31, 41-45
\* and 51-55.  `origin` is bookkeeping that the code does not hold: the
\* index of the input line that started the record, the kind of that line,
\* and the indices of the lines appended to the message.
LogDict(ts, lv, msg, n, kind) ==
    [timestamp |-> ts, level |-> lv, message |-> msg,
     origin |-> [first |-> n, kind |-> kind, conts |-> <<>>]]

\* A list insert at the front where the code appends.
ListInsertFront(structured, log) == <<log>> \o structured

\* structured.append(current_log)
ListAppend(structured, log) == Append(structured, log)

\* `if current_log: structured.append(current_log)`; current_log is None
\* (the empty sequence here) or a dict of three keys, which is truthy.
Flush(st) ==
    IF st.current_log # <<>> THEN ListAppend(st.structured, st.current_log[1])
    ELSE st.structured

\* The stripped line the loop body works with (line 15).
StripLine(rawline) == strip(rawline)

\* One iteration of `for line in raw_text.splitlines()` on physical line n.
\* st = [current_log, structured, raised]; raised names the exception that
\* leaves the function, "" when none.
LoopBody(st, n, rawline) ==
    LET line == StripLine(rawline)
        parsed == json_loads(line)
        match == text_log_pattern(line)
        raise(e) == [st EXCEPT !.raised = e]
        start(log) == [st EXCEPT !.structured = Flush(st), !.current_log = <<log>>]
    IN  IF line = <<>> THEN st
        ELSE IF parsed.ok /\ parsed.ty \notin {"dict", "str", "list"}
        THEN raise("TypeError")                       \* `k in parsed`
        ELSE IF parsed.ok /\ RequiredKeys \subseteq parsed.has
        THEN IF parsed.ty # "dict"
             THEN raise("TypeError")                  \* parsed["timestamp"]
             ELSE start(LogDict(parsed.fields.timestamp, parsed.fields.level,
                                parsed.fields.message, n, "json"))
        ELSE IF match.matched
        THEN start(LogDict(PyStr(match.g1), PyStr(match.g2), PyStr(match.g3),
                           n, "header"))
        ELSE IF st.current_log # <<>>
        THEN LET cur == st.current_log[1]
             IN  IF cur.message.ty # "str"
                 THEN raise("TypeError")              \* message += "\n" + line
                 ELSE [st EXCEPT !.current_log =
                         <<[cur EXCEPT !.message = PyStr(cur.message.s \o <<NL>> \o line),
                                       !.origin.conts = Append(cur.origin.conts, n)]>>]
        ELSE [st EXCEPT !.current_log =
                <<LogDict(PyStr(<<>>), PyStr(<<"UNKNOWN">>), PyStr(line), n, "orphan")>>]

\* Lines 57-60: the trailing append and the return.
AfterLoop(st) == [st EXCEPT !.structured = Flush(st)]

RECURSIVE Fold(_, _, _)
Fold(st, ls, n) ==
    IF n > Len(ls) \/ st.raised # "" THEN st
    ELSE Fold(LoopBody(st, n, ls[n]), ls, n + 1)

\* structure_logs(raw_text) as a function: [raised, structured].
structure_logs(text) ==
    LET st == Fold([current_log |-> <<>>, structured |-> <<>>, raised |-> ""],
                   splitlines(text), 1)
    IN  IF st.raised # "" THEN [raised |-> st.raised, structured |-> <<>>]
        ELSE [raised |-> "", structured |-> AfterLoop(st).structured]

\* ------------------------------------------------- chunk_structured_logs

\* The format string with the space after the closing bracket left out.
format_log_nospace(log) ==
    log.timestamp.s \o <<SP, "[">> \o log.level.s \o <<"]">> \o log.message.s

\* f"{log['timestamp']} [{log['level']}] {log['message']}"
format_log(log) ==
    log.timestamp.s \o <<SP, "[">> \o log.level.s \o <<"]", SP>> \o log.message.s

\* The slice with its upper end one short: logs[i:j-1].
SliceShort(logs, i, j) ==
    LET hi == IF j - 1 > Len(logs) THEN Len(logs) ELSE j - 1
    IN  SubSeq(logs, i + 1, hi)

\* logs[i:j] with 0-based i, j as Python clamps them.
Slice(logs, i, j) ==
    LET hi == IF j > Len(logs) THEN Len(logs) ELSE j
    IN  SubSeq(logs, i + 1, hi)

RECURSIVE Range(_, _, _)
\* range(start, stop, step) for step # 0, as a sequence.
Range(start, stop, step) ==
    IF (step > 0 /\ start < stop) \/ (step < 0 /\ start > stop)
    THEN <<start>> \o Range(start + step, stop, step)
    ELSE <<>>

\* Lines 66-70: the text of the chunk that starts at 0-based position i.
ChunkText(logs, i, chunk_size) ==
    LET chunk == Slice(logs, i, i + chunk_size)
    IN  join(<<NL>>, [k \in 1..Len(chunk) |-> format_log(chunk[k])])

\* chunk_structured_logs(logs, chunk_size): [raised, chunks].  range() with
\* a step of 0 raises ValueError before the first iteration.
chunk_structured_logs(logs, chunk_size) ==
    IF chunk_size = 0 THEN [raised |-> "ValueError", chunks |-> <<>>]
    ELSE LET starts == Range(0, Len(logs), chunk_size)
         IN  [raised |-> "",
              chunks |-> [k \in 1..Len(starts) |-> ChunkText(logs, starts[k], chunk_size)]]

\* ---------------------------------------------------------------- inputs

TS1 == "2024-01-01 10:00:00"
TS2 == "2024-01-01 10:00:01"

\* Physical input lines: headers with and without brackets and sub-second
\* suffix, an indented stack-trace line, white space only, a header without
\* message text, and single-line JSON texts.
LineCatalogue ==
    { <<TS1, SP, "[", "INFO", "]", SP, "started">>,
      <<TS2, ",123", SP, "ERROR", SP, "failed", SP, "at">>,
      <<SP, SP, "at", SP, "line", SP, "5">>,
      <<SP>>,
      <<TS1, SP, "INFO">>,
      <<JsonRecordText>>,
      <<JsonEmptyMsgText>>,
      <<JsonIntMsgText>>,
      <<JsonNoKeysText>>,
      <<JsonNumberText>>,
      <<JsonStringText>> }

InputTexts ==
    { join(<<NL>>, ls) : ls \in UNION { [1..n -> LineCatalogue] : n \in 0..MaxLines } }

ChunkSizes == (0 - 1) .. MaxChunkSize

\* ----------------------------------------------------------------- state

VARIABLES
    raw_text,       \* structure_logs: the argument
    idx,            \* number of physical lines the for loop has consumed
    current_log,    \* <<>> for None, <<dict>> otherwise
    structured,     \* the list being built, then the returned list
    raised,         \* "" or the exception that left structure_logs
    pc,             \* "loop", "returned", "raised", "chunked", "chunk_raised"
    chunk_size,     \* chunk_structured_logs: the argument
    chunks          \* chunk_structured_logs: the returned list

parser_vars == <<raw_text, idx, current_log, structured, raised, pc, chunk_size, chunks>>

InputLines == splitlines(raw_text)

ParserInit ==
    /\ raw_text \in InputTexts
    /\ idx = 0
    /\ current_log = <<>>
    /\ structured = <<>>
    /\ raised = ""
    /\ pc = "loop"
    /\ chunk_size = 0
    /\ chunks = <<>>

\* One iteration of the for loop of structure_logs (lines 14-55).
ForLine ==
    /\ pc = "loop"
    /\ idx < Len(InputLines)
    /\ LET st == LoopBody([current_log |-> current_log, structured |-> structured,
                           raised |-> ""], idx + 1, InputLines[idx + 1])
       IN  /\ current_log' = st.current_log
           /\ structured' = st.structured
           /\ raised' = st.raised
           /\ pc' = IF st.raised # "" THEN "raised" ELSE "loop"
    /\ idx' = idx + 1
    /\ UNCHANGED <<raw_text, chunk_size, chunks>>

\* The end of the loop, the trailing append and the return (lines 57-60).
Return ==
    /\ pc = "loop"
    /\ idx = Len(InputLines)
    /\ structured' = AfterLoop([current_log |-> current_log, structured |-> structured,
                                raised |-> ""]).structured
    /\ pc' = "returned"
    /\ UNCHANGED <<raw_text, idx, current_log, raised, chunk_size, chunks>>

\* chunk_structured_logs(structured, cs) on the returned records.
Chunk ==
    /\ pc = "returned"
    /\ \E cs \in ChunkSizes :
         LET r == chunk_structured_logs(structured, cs)
         IN  /\ chunk_size' = cs
             /\ chunks' = r.chunks
             /\ pc' = IF r.raised # "" THEN "chunk_raised" ELSE "chunked"
    /\ UNCHANGED <<raw_text, idx, current_log, structured, raised>>

\* ------------------------------------------------------------ app.py

\* chunk_size of the call at app.py line 76: the default of utils.py line 63.
DefaultChunkSize == 10

\* Numbers of lines of the two larger uploaded files.
NumLinesA == 21
NumLinesB == 11

\* The selectbox of line 70.
LevelOptions == {"All", "INFO", "DEBUG", "WARNING", "ERROR"}

\* Uploaded files: A alternates ERROR and INFO headers, B holds WARNING
\* headers, C holds a header and a line that is a JSON number.
FileNames == {"A", "B", "C"}
FileText(f) ==
    CASE f = "A" -> join(<<NL>>, [i \in 1..NumLinesA |->
                        <<TS1, SP, "[", IF i % 2 = 1 THEN "ERROR" ELSE "INFO", "]", SP,
                          ToString(i)>>])
      [] f = "B" -> join(<<NL>>, [i \in 1..NumLinesB |->
                        <<TS2, ",123", SP, "WARNING", SP, ToString(i)>>])
      [] OTHER -> join(<<NL>>, << <<TS1, SP, "[", "DEBUG", "]", SP, "started">>,
                                  <<JsonNumberText>> >>)

\* `level in line` for one lexeme: the lexeme holds the level as a substring.
LexemeHas(lex, level) ==
    \/ lex = level
    \/ lex = JsonRecordText /\ level = "DEBUG"
    \/ lex = JsonEmptyMsgText /\ level = "INFO"
    \/ lex = JsonIntMsgText /\ level = "ERROR"

\* Lines 71-72: the severity filter on the raw text.
FilterText(text, level) ==
    IF level = "All" THEN text
    ELSE LET keep(line) == \E i \in 1..Len(line) : LexemeHas(line[i], level)
         IN  join(<<NL>>, SelectSeq(splitlines(text), keep))

\* llm.invoke(prompt) when it returns: the result answers the chunk that
\* the prompt embedded.
LlmResult(chunk) == [content_of |-> chunk]

VARIABLES
    uploaded_file,        \* the file_uploader widget: "none" or a file name
    level,                \* the selectbox widget
    ss_chunks,            \* st.session_state.chunks
    all_chunk_insights,   \* st.session_state.all_chunk_insights
    app_pc,               \* "idle", "analysing" (the for loop of line 85), "tabs"
    loop_i,               \* chunks the for loop has taken
    button,               \* this script run was started by the Run button
    analysis_error,       \* the local of line 84
    error_shown,          \* st.error of line 101 was called in this run
    submitted,            \* chunks handed to llm.invoke in this run, in call order
    rendered              \* what tabs 2-4 of the last completed run displayed

app_vars == <<uploaded_file, level, ss_chunks, all_chunk_insights, app_pc, loop_i,
              button, analysis_error, error_shown, submitted, rendered>>

vars == <<parser_vars, app_vars>>

NothingRendered == [tab2 |-> <<>>, tab3 |-> <<>>, summary |-> "none", tab4 |-> <<>>]

AppInit ==
    /\ uploaded_file = "none"
    /\ level = "All"
    /\ ss_chunks = <<>>
    /\ all_chunk_insights = <<>>
    /\ app_pc = "idle"
    /\ loop_i = 0
    /\ button = FALSE
    /\ analysis_error = FALSE
    /\ error_shown = FALSE
    /\ submitted = <<>>
    /\ rendered = NothingRendered

\* One script run from the top to the end of tab 1's upload block (lines
\* 36-84) with the widgets at file f, level lv and the button at pressed.
\* An exception of structure_logs ends the run there.
ScriptRun(f, lv, pressed) ==
    /\ uploaded_file' = f
    /\ level' = lv
    /\ button' = pressed
    /\ loop_i' = 0
    /\ analysis_error' = FALSE
    /\ error_shown' = FALSE
    /\ submitted' = <<>>
    /\ UNCHANGED rendered
    /\ IF f = "none"
       THEN /\ app_pc' = "tabs"
            /\ UNCHANGED <<ss_chunks, all_chunk_insights>>
       ELSE LET r == structure_logs(FilterText(FileText(f), lv))
            IN  IF r.raised # ""
                THEN /\ app_pc' = "idle"
                     /\ UNCHANGED <<ss_chunks, all_chunk_insights>>
                ELSE /\ ss_chunks' = chunk_structured_logs(r.structured,
                                                           DefaultChunkSize).chunks
                     /\ all_chunk_insights' = IF pressed THEN <<>> ELSE all_chunk_insights
                     /\ app_pc' = IF pressed THEN "analysing" ELSE "tabs"

\* The user picks a file in the uploader (line 64).
Upload ==
    /\ app_pc = "idle"
    /\ \E f \in FileNames : f # uploaded_file /\ ScriptRun(f, level, FALSE)
    /\ UNCHANGED parser_vars

\* The user removes the file from the uploader.
RemoveFile ==
    /\ app_pc = "idle"
    /\ uploaded_file # "none"
    /\ ScriptRun("none", level, FALSE)
    /\ UNCHANGED parser_vars

\* The user picks a level in the selectbox (line 70), shown with a file.
SelectLevel ==
    /\ app_pc = "idle"
    /\ uploaded_file # "none"
    /\ \E lv \in LevelOptions : lv # level /\ ScriptRun(uploaded_file, lv, FALSE)
    /\ UNCHANGED parser_vars

\* The button of line 81 exists when the last run reached it.
ButtonShown ==
    /\ uploaded_file # "none"
    /\ structure_logs(FilterText(FileText(uploaded_file), level)).raised = ""

\* The user presses "Run AI Chunk Analysis" (lines 81-84).
ClickRun ==
    /\ app_pc = "idle"
    /\ ButtonShown
    /\ ScriptRun(uploaded_file, level, TRUE)
    /\ UNCHANGED parser_vars

\* Lines 85-98 and 105: llm.invoke returns for the next chunk.
InvokeReturns ==
    /\ app_pc = "analysing"
    /\ loop_i < Len(ss_chunks)
    /\ submitted' = Append(submitted, ss_chunks[loop_i + 1])
    /\ all_chunk_insights' = Append(all_chunk_insights, LlmResult(ss_chunks[loop_i + 1]))
    /\ loop_i' = loop_i + 1
    /\ UNCHANGED <<uploaded_file, level, ss_chunks, app_pc, button, analysis_error,
                   error_shown, rendered>>
    /\ UNCHANGED parser_vars

\* The except block with `continue` where the code has `break`.
InvokeRaisesContinue ==
    /\ app_pc = "analysing"
    /\ loop_i < Len(ss_chunks)
    /\ submitted' = Append(submitted, ss_chunks[loop_i + 1])
    /\ error_shown' = TRUE
    /\ analysis_error' = TRUE
    /\ loop_i' = loop_i + 1
    /\ UNCHANGED <<uploaded_file, level, ss_chunks, all_chunk_insights, app_pc, button,
                   rendered>>
    /\ UNCHANGED parser_vars

\* Lines 99-103: llm.invoke raises for the next chunk.
InvokeRaises ==
    /\ app_pc = "analysing"
    /\ loop_i < Len(ss_chunks)
    /\ submitted' = Append(submitted, ss_chunks[loop_i + 1])
    /\ error_shown' = TRUE
    /\ analysis_error' = TRUE
    /\ app_pc' = "tabs"
    /\ UNCHANGED <<uploaded_file, level, ss_chunks, all_chunk_insights, loop_i, button,
                   rendered>>
    /\ UNCHANGED parser_vars

\* The for loop runs out of chunks (lines 107-108).
LoopEnd ==
    /\ app_pc = "analysing"
    /\ loop_i = Len(ss_chunks)
    /\ app_pc' = "tabs"
    /\ UNCHANGED <<uploaded_file, level, ss_chunks, all_chunk_insights, loop_i, button,
                   analysis_error, error_shown, submitted, rendered>>
    /\ UNCHANGED parser_vars

\* Tabs 2-4 (lines 111-163).  Tab 3 calls the model once more when there
\* are insights; when that call raises, final_result is None and line 137
\* raises AttributeError, which ends the run before tab 4.
RenderTabs ==
    /\ app_pc = "tabs"
    /\ \E llm_ok \in BOOLEAN :
         rendered' =
           [tab2 |-> all_chunk_insights,
            tab3 |-> all_chunk_insights,
            summary |-> IF all_chunk_insights = <<>> THEN "none"
                        ELSE IF llm_ok THEN "ok" ELSE "AttributeError",
            tab4 |-> IF all_chunk_insights # <<>> /\ ~llm_ok THEN <<>> ELSE ss_chunks]
    /\ app_pc' = "idle"
    /\ UNCHANGED <<uploaded_file, level, ss_chunks, all_chunk_insights, loop_i, button,
                   analysis_error, error_shown, submitted>>
    /\ UNCHANGED parser_vars

\* ------------------------------------------------------- specifications

\* The session variables stay at their initial values in the specification
\* of the parser and the batcher.
Init == ParserInit /\ AppInit

Next ==
    \/ ForLine /\ UNCHANGED app_vars
    \/ Return /\ UNCHANGED app_vars
    \/ Chunk /\ UNCHANGED app_vars

\* structure_logs on every input text, then chunk_structured_logs.
Spec == Init /\ [][Next]_vars

AppStart ==
    /\ raw_text = <<>>
    /\ idx = 0
    /\ current_log = <<>>
    /\ structured = <<>>
    /\ raised = ""
    /\ pc = "returned"
    /\ chunk_size = DefaultChunkSize
    /\ chunks = <<>>
    /\ AppInit

AppNext ==
    \/ Upload
    \/ RemoveFile
    \/ SelectLevel
    \/ ClickRun
    \/ InvokeReturns
    \/ InvokeRaises
    \/ LoopEnd
    \/ RenderTabs

\* One Streamlit session of app.py.
SpecApp == AppStart /\ [][AppNext]_vars

\* ---------------------------------------------------------------- claims

NonBlank(n) == strip(InputLines[n]) # <<>>

Finished == pc \in {"returned", "raised", "chunked", "chunk_raised"}
Returned == pc \in {"returned", "chunked", "chunk_raised"}

\* C1: structure_logs never raises, whatever the input text (also a line
\* that is valid JSON but no object, or a JSON object with a non-string
\* message followed by a continuation line), and empty input returns the
\* empty sequence.
C1_NeverRaises ==
    /\ pc # "raised"
    /\ (Returned /\ raw_text = <<>>) => structured = <<>>

\* C2: chunk_structured_logs with chunk_size <= 0 is rejected with an error
\* and returns no chunk list.
C2_NonPositiveRejected ==
    (pc \in {"chunked", "chunk_raised"} /\ chunk_size <= 0) => pc = "chunk_raised"

\* 0-based positions [lo, hi) of the records of chunk i (0-based).
ChunkLo(i) == i * chunk_size
ChunkHi(i) ==
    IF (i + 1) * chunk_size < Len(structured) THEN (i + 1) * chunk_size
    ELSE Len(structured)

\* C3: for a positive chunk_size the batcher returns ceil(N/chunk_size)
\* chunks, chunk i is the serialization of the records at positions
\* [i*chunk_size, min((i+1)*chunk_size, N)) in order, every record lies in
\* exactly one chunk, only the last chunk may be short, and no records give
\* no chunks.
C3_Partition ==
    (pc \in {"chunked", "chunk_raised"} /\ chunk_size > 0) =>
        LET N == Len(structured)
            M == Len(chunks)
        IN  /\ pc = "chunked"
            /\ M = (N + chunk_size - 1) \div chunk_size
            /\ N = 0 => chunks = <<>>
            /\ \A i \in 0..M - 1 :
                 /\ chunks[i + 1] =
                      join(<<NL>>, [k \in 1..ChunkHi(i) - ChunkLo(i) |->
                                      format_log(structured[ChunkLo(i) + k])])
                 /\ ChunkHi(i) > ChunkLo(i)
                 /\ i < M - 1 => ChunkHi(i) - ChunkLo(i) = chunk_size
            /\ \A r \in 0..N - 1 :
                 Cardinality({i \in 0..M - 1 : ChunkLo(i) <= r /\ r < ChunkHi(i)}) = 1

C3_Witness ==
    /\ pc = "chunked"
    /\ chunk_size = 2
    /\ Len(structured) = 3
    /\ Len(chunks) = 2

RECURSIVE ContinuationText(_, _)
\* "\n" + line for each of the input lines ns, stripped or as they are.
ContinuationText(ns, stripped) ==
    IF ns = <<>> THEN <<>>
    ELSE <<NL>>
         \o (IF stripped THEN strip(InputLines[Head(ns)]) ELSE InputLines[Head(ns)])
         \o ContinuationText(Tail(ns), stripped)

\* The message a record holds when its first line and its continuation
\* lines are all in it, each line stripped.
StrippedLine(n) == strip(InputLines[n])
MessageOfLines(rec) ==
    LET first == StrippedLine(rec.origin.first)
        head == CASE rec.origin.kind = "json" -> json_loads(first).fields.message.s
                  [] rec.origin.kind = "header" -> text_log_pattern(first).g3
                  [] OTHER -> first
    IN  head \o ContinuationText(rec.origin.conts, TRUE)

\* Record rec accounts for input line n.
Holds(rec, n) ==
    /\ \/ rec.origin.first = n
       \/ \E j \in 1..Len(rec.origin.conts) : rec.origin.conts[j] = n
    /\ rec.message.s = MessageOfLines(rec)

\* C4: when structure_logs is done, every non-blank input line started a
\* record or was appended to the message of the open record, and that
\* record is in the returned sequence.
C4_NoDataLoss ==
    Finished =>
        \A n \in 1..Len(InputLines) :
            NonBlank(n) =>
                /\ Returned
                /\ \E k \in 1..Len(structured) : Holds(structured[k], n)

\* C5: every record structure_logs returns has a non-empty message.
C5_MessageNonEmpty ==
    Returned => \A k \in 1..Len(structured) : structured[k].message # PyStr(<<>>)

\* C6: a continuation line is stored in the message as the physical line,
\* leading and trailing white space included.
C6_ContinuationVerbatim ==
    Returned =>
        \A k \in 1..Len(structured) :
            LET rec == structured[k]
                tail == ContinuationText(rec.origin.conts, FALSE)
                s == rec.message.s
            IN  /\ Len(s) >= Len(tail)
                /\ SubSeq(s, Len(s) - Len(tail) + 1, Len(s)) = tail

\* C7: records are in the order of the input lines that started them, none
\* twice; the open record comes after all of them.
C7_InputOrder ==
    /\ \A i, j \in 1..Len(structured) :
         i < j => structured[i].origin.first < structured[j].origin.first
    /\ (pc = "loop" /\ current_log # <<>>) =>
         \A i \in 1..Len(structured) :
            structured[i].origin.first < current_log[1].origin.first

C7_Witness ==
    /\ pc = "returned"
    /\ Len(structured) = 3
    /\ {structured[k].origin.kind : k \in 1..3} = {"json", "header", "orphan"}

RECURSIVE Reparsed(_)
\* The records structure_logs gives for each chunk text, one after another;
\* a chunk on which it raises contributes a marker.
Reparsed(cs) ==
    IF cs = <<>> THEN <<>>
    ELSE LET r == structure_logs(Head(cs))
         IN  (IF r.raised # "" THEN <<[level |-> PyStr(<<>>), message |-> PyStr(<<>>)]>>
              ELSE [k \in 1..Len(r.structured) |->
                      [level |-> r.structured[k].level,
                       message |-> r.structured[k].message]])
             \o Reparsed(Tail(cs))

HeaderPathOnly ==
    \A k \in 1..Len(structured) : structured[k].origin.kind = "header"

\* C8: records of the structured-header path, serialized into chunks and
\* parsed again chunk by chunk, come back in the same number with the same
\* level and message, multi-line messages included.
C8_RoundTrip ==
    (pc = "chunked" /\ chunk_size > 0 /\ HeaderPathOnly) =>
        Reparsed(chunks) = [k \in 1..Len(structured) |->
                              [level |-> structured[k].level,
                               message |-> structured[k].message]]

C8_Witness ==
    /\ pc = "chunked"
    /\ chunk_size = 1
    /\ HeaderPathOnly
    /\ Len(structured) = 2
    /\ Len(chunks) = 2
    /\ structured[1].origin.conts # <<>>

Results(cs) == [k \in 1..Len(cs) |-> LlmResult(cs[k])]

\* C9: in one analysis pass the chunks go to the model one at a time in
\* chunk order; when the call for a chunk fails no later chunk is
\* submitted, the error is shown, and the stored results are those of the
\* chunks before it in order; when none fails, those of all chunks.
C9_SequentialAbort ==
    /\ (app_pc = "analysing") =>
          /\ submitted = SubSeq(ss_chunks, 1, loop_i)
          /\ all_chunk_insights = Results(submitted)
          /\ ~error_shown
    /\ (app_pc = "tabs" /\ button) =>
          IF analysis_error
          THEN /\ error_shown
               /\ \E i \in 1..Len(ss_chunks) :
                     /\ submitted = SubSeq(ss_chunks, 1, i)
                     /\ all_chunk_insights = Results(SubSeq(ss_chunks, 1, i - 1))
          ELSE /\ ~error_shown
               /\ submitted = ss_chunks
               /\ all_chunk_insights = Results(ss_chunks)

C9_Witness ==
    /\ app_pc = "tabs"
    /\ button
    /\ analysis_error
    /\ Len(ss_chunks) = 3
    /\ Len(submitted) = 2
    /\ Len(all_chunk_insights) = 1

\* C10: at any point of a session the stored results belong to the current
\* chunk set: there are at most as many as chunks, and the i-th is the
\* result of the current i-th chunk.
C10_InsightsMatchChunks ==
    /\ Len(all_chunk_insights) <= Len(ss_chunks)
    /\ \A i \in 1..Len(all_chunk_insights) :
         i <= Len(ss_chunks) => all_chunk_insights[i] = LlmResult(ss_chunks[i])

====
